---- MODULE Spec2Model ----
(***************************************************************************)
(* The flash command engine of flash.py (class Flash): a queue of          *)
(* erase/write/read commands, the worker thread that drains it under the   *)
(* PENDING_COMMANDS_LIMIT gate, and the link callbacks that count          *)
(* completions and accumulate read fragments.                              *)
(*                                                                         *)
(* Three contexts run interleaved: the client (enqueue, stop), the worker  *)
(* (Flash.run) and the link's receive thread (the two callbacks).  Every   *)
(* access to an attribute of the Flash object is a step of its own; work   *)
(* on thread-local values is folded into the neighbouring step.            *)
(***************************************************************************)
EXTENDS Integers, Sequences, FiniteSets, TLC

(* ---------------------------------------------------------------- constants *)
ADDRS_PER_READ_CALLBACK == 16
ADDRS_PER_WRITE_CALLBACK == 128
PENDING_COMMANDS_LIMIT == 20
MSG_FLASH_WRITE == 240
MSG_FLASH_READ == 241
MSG_FLASH_ERASE == 242

(* ------------------------------------------------------------------- bounds *)
\* commands a client enqueues in one run of Spec
MaxCmds == 3
\* commands a client enqueues in one run of SpecGate
GateCmds == 2
\* longest payload / read length of SpecChunk
MaxLen == 257

(* ------------------------------------------------------------------ helpers *)
Min(a, b) == IF a < b THEN a ELSE b
Max(a, b) == IF a < b THEN b ELSE a

\* int(ceil(float(x)/m)) for 0 <= x < 2^53
CeilDiv(x, m) == (x + m - 1) \div m

\* struct.pack("<I", x), 0 <= x < 2^32
PackLE32(x) == << x % 256, (x \div 256) % 256, (x \div 65536) % 256, (x \div 16777216) % 256 >>

\* struct.unpack("<I", b)[0]
UnpackLE32(b) == b[1] + 256 * b[2] + 65536 * b[3] + 16777216 * b[4]

\* struct.unpack('>I', b)[0]
UnpackBE32(b) == 16777216 * b[1] + 65536 * b[2] + 256 * b[3] + b[4]

\* the three address bytes of a read-response frame, big endian
PackBE24(x) == << (x \div 65536) % 256, (x \div 256) % 256, x % 256 >>

\* python's s[a:] and s[:b] on a sequence (0-based bounds)
SliceFrom(s, a) == SubSeq(s, a + 1, Len(s))
SliceTo(s, b) == SubSeq(s, 1, Min(b, Len(s)))

(* ----------------------------------------------------------------- commands *)
\* the tuple (cmd, args) that _schedule_command appends; id is the position of
\* the command in the order of the enqueue calls (history, not program state)
ReadCmd(addr, length) == [cmd |-> "_read", addr |-> addr, length |-> length, data |-> << >>]
EraseCmd(addr) == [cmd |-> "_erase_sector", addr |-> addr, length |-> 0, data |-> << >>]
WriteCmd(addr, data) == [cmd |-> "_write", addr |-> addr, length |-> 0, data |-> data]

WithId(c, n) == [cmd |-> c.cmd, addr |-> c.addr, length |-> c.length, data |-> c.data, id |-> n]
NoCmd == [cmd |-> "none", addr |-> 0, length |-> 0, data |-> << >>, id |-> 0]

\* payload bytes a client writes: byte i of a payload of any length
PayloadByte(i) == (7 * i + 3) % 256
Payload(n) == [i \in 1..n |-> PayloadByte(i)]

\* contents of the device's flash at an address
FlashByte(a) == (5 * a + 1) % 256

VARIABLES
  command_queue,               \* Flash._command_queue
  wants_to_exit,               \* Flash._wants_to_exit
  total_callbacks_expected,    \* Flash._total_callbacks_expected
  done_callbacks_received,     \* Flash._done_callbacks_received
  read_callbacks_received,     \* Flash._read_callbacks_received
  rd_cb_addrs,                 \* Flash.rd_cb_addrs
  rd_cb_lens,                  \* Flash.rd_cb_lens
  rd_cb_data,                  \* Flash.rd_cb_data
  pc,                          \* the worker's position in run()
  w_cmd,                       \* run(): cmd, args of the command taken
  w_tail,                      \* run(): the value of self._command_queue[1:]
  w_addr,                      \* _write(): addr
  w_data,                      \* _write(): data
  w_tmp,                       \* the worker's operand stack (a counter just loaded)
  wire,                        \* link.send_message calls so far, in order
  lk_pc,                       \* the link thread's position in a callback
  lk_count,                    \* callbacks the link has started so far
  lk_frame,                    \* the data argument of the running callback
  lk_tmp,                      \* the link thread's operand stack (a counter just loaded)
  lk_obj,                      \* the link thread's operand stack (the list being extended)
  menu,                        \* which commands the client may enqueue
  budget,                      \* enqueue calls the client still makes
  log,                         \* history: every command enqueued, in order
  dispatched,                  \* history: ids the worker removed from the queue
  rd_cb_src,                   \* history: for each entry of rd_cb_addrs, the read it answers
  cur_read,                    \* history: id of the read whose _read ran last
  sanity,                      \* what the last call of read_cb_sanity_check did
  lost,                        \* callbacks the link has dropped
  ihx,                         \* write_ihx: the image, its minaddr and maxaddr
  ld_pc,                       \* write_ihx: the caller's position
  ld_addr,                     \* write_ihx: addr of the running for loop
  class_command_queue,         \* two instances: the list Flash._command_queue
  inst_command_queue,          \* two instances: each instance's own _command_queue, if set
  class_rd_cb_addrs,           \* two instances: the list Flash.rd_cb_addrs
  inst_rd_cb_addrs,            \* two instances: each instance's own rd_cb_addrs, if set
  inst_wire,                   \* two instances: messages sent over each instance's link
  inst_count,                  \* two instances: callbacks each instance's link has made
  inst_log                     \* two instances: history of the commands enqueued

engine == << command_queue, wants_to_exit, total_callbacks_expected,
             done_callbacks_received, read_callbacks_received,
             rd_cb_addrs, rd_cb_lens, rd_cb_data >>
worker == << pc, w_cmd, w_tail, w_addr, w_data, w_tmp >>
link == << lk_pc, lk_count, lk_frame, lk_tmp, lk_obj >>
\* what the engine's own threads never write
loader == << ihx, ld_pc, ld_addr >>
two == << class_command_queue, inst_command_queue, class_rd_cb_addrs, inst_rd_cb_addrs,
         inst_wire, inst_count, inst_log >>
fixed == << menu, sanity, lost, loader, two >>
history == << fixed, budget, log, dispatched, rd_cb_src, cur_read >>
vars == << engine, worker, wire, link, history >>

(* ---------------------------------------------------------- Flash accessors *)
flash_operations_pending == total_callbacks_expected - done_callbacks_received - read_callbacks_received

flash_callbacks_left == Len(command_queue) + flash_operations_pending

(* ------------------------------------------------------------ client inputs *)
Menu == { EraseCmd(65536), WriteCmd(256, Payload(129)), ReadCmd(4096, 17) }

\* a write of as many messages as the pending limit
GateMenu == { EraseCmd(65536), WriteCmd(256, Payload(PENDING_COMMANDS_LIMIT * ADDRS_PER_WRITE_CALLBACK)) }

ChunkMenu == { WriteCmd(65408, Payload(n)) : n \in 0..MaxLen }
             \cup { ReadCmd(65408, n) : n \in 0..MaxLen }
             \cup { EraseCmd(65536) }

\* messages of the write a client may enqueue in SpecLoss
LossChunks == 20

LossMenu == { EraseCmd(65536), WriteCmd(256, Payload(LossChunks * ADDRS_PER_WRITE_CALLBACK)) }

MenuOf(name) ==
  IF name = "Menu" THEN Menu
  ELSE IF name = "GateMenu" THEN GateMenu
  ELSE IF name = "LossMenu" THEN LossMenu
  ELSE ChunkMenu

(* --------------------------------------------------------------------- Init *)
\* two engines, each constructed on a link of its own
Insts == { 1, 2 }

\* an attribute no instance has set: looked up, it is the class attribute
Unset == [own |-> FALSE, list |-> << >>]

\* the class attributes of Flash and a thread that has not yet run
InitRest ==
  /\ command_queue = << >>
  /\ wants_to_exit = FALSE
  /\ total_callbacks_expected = 0
  /\ done_callbacks_received = 0
  /\ read_callbacks_received = 0
  /\ pc = "top"
  /\ w_cmd = NoCmd
  /\ w_tail = << >>
  /\ w_addr = 0
  /\ w_data = << >>
  /\ w_tmp = 0
  /\ wire = << >>
  /\ lk_pc = "idle"
  /\ lk_count = 0
  /\ lk_frame = << >>
  /\ lk_tmp = 0
  /\ lk_obj = << >>
  /\ log = << >>
  /\ dispatched = << >>
  /\ rd_cb_src = << >>
  /\ cur_read = 0
  /\ sanity = "none"
  /\ lost = 0
  /\ class_command_queue = << >>
  /\ inst_command_queue = [i \in Insts |-> Unset]
  /\ class_rd_cb_addrs = << >>
  /\ inst_rd_cb_addrs = [i \in Insts |-> Unset]
  /\ inst_wire = [i \in Insts |-> << >>]
  /\ inst_count = [i \in Insts |-> 0]
  /\ inst_log = << >>

\* no image: write_ihx is not called
NoImage == [lo |-> 0, hi |-> 0]

InitNoLoad == ihx = NoImage /\ ld_pc = "off" /\ ld_addr = 0

InitLists ==
  /\ rd_cb_addrs = << >>
  /\ rd_cb_lens = << >>
  /\ rd_cb_data = << >>

InitEngine == InitRest /\ InitLists /\ InitNoLoad

Init == InitEngine /\ menu = "Menu" /\ budget = MaxCmds

InitGate == InitEngine /\ menu = "GateMenu" /\ budget = GateCmds

InitChunk == InitEngine /\ menu = "ChunkMenu" /\ budget = 1

(* ------------------------------------------------------------------- client *)
\* a command put in front of the queue instead of behind it
SchedulePrepend(q, c) == << c >> \o q

\* self._command_queue.append((cmd, addr))
ScheduleAppend(q, c) == Append(q, c)

\* erase_sector / write / read: each only calls _schedule_command
Enqueue ==
  /\ budget > 0
  /\ \E c \in MenuOf(menu) :
       LET e == WithId(c, Len(log) + 1) IN
         /\ command_queue' = ScheduleAppend(command_queue, e)
         /\ log' = Append(log, e)
  /\ budget' = budget - 1
  /\ UNCHANGED << wants_to_exit, total_callbacks_expected, done_callbacks_received,
                  read_callbacks_received, rd_cb_addrs, rd_cb_lens, rd_cb_data,
                  worker, wire, link, fixed, dispatched, rd_cb_src, cur_read >>

Stop ==
  /\ wants_to_exit = FALSE
  /\ wants_to_exit' = TRUE
  /\ UNCHANGED << command_queue, total_callbacks_expected, done_callbacks_received,
                  read_callbacks_received, rd_cb_addrs, rd_cb_lens, rd_cb_data,
                  worker, wire, link, history >>

(* ------------------------------------------------------------ worker: run() *)
\* the gate opened at the limit itself
AdmitsAtLimit(pending) == pending <= PENDING_COMMANDS_LIMIT

\* the gate left out of the condition
AdmitsAlways(pending) == TRUE

\* the comparison of line 99
Admits(pending) == pending < PENDING_COMMANDS_LIMIT

\* the loop condition taken as true whatever the flag
W_TopIgnoresFlag ==
  /\ pc = "top"
  /\ pc' = "chk_len"
  /\ UNCHANGED << engine, w_cmd, w_tail, w_addr, w_data, w_tmp, wire, link, history >>

\* while not self._wants_to_exit
W_Top ==
  /\ pc = "top"
  /\ pc' = IF wants_to_exit THEN "exit" ELSE "chk_len"
  /\ UNCHANGED << engine, w_cmd, w_tail, w_addr, w_data, w_tmp, wire, link, history >>

\* len(self._command_queue) != 0, then the load of _total_callbacks_expected
\* (only this thread writes it); an empty queue goes to the sleep and back to
\* the top
W_CheckLen ==
  /\ pc = "chk_len"
  /\ IF Len(command_queue) # 0
       THEN pc' = "chk_done" /\ w_tmp' = total_callbacks_expected
       ELSE pc' = "top" /\ w_tmp' = w_tmp
  /\ UNCHANGED << engine, w_cmd, w_tail, w_addr, w_data, wire, link, history >>

\* ... - self._done_callbacks_received
W_CheckDone ==
  /\ pc = "chk_done"
  /\ w_tmp' = w_tmp - done_callbacks_received
  /\ pc' = "chk_read"
  /\ UNCHANGED << engine, w_cmd, w_tail, w_addr, w_data, wire, link, history >>

\* ... - self._read_callbacks_received < PENDING_COMMANDS_LIMIT; when it fails,
\* the sleep and back to the top
W_CheckRead ==
  /\ pc = "chk_read"
  /\ pc' = IF Admits(w_tmp - read_callbacks_received) THEN "head" ELSE "top"
  /\ w_tmp' = 0
  /\ UNCHANGED << engine, w_cmd, w_tail, w_addr, w_data, wire, link, history >>

\* cmd, args = self._command_queue[0]
W_Head ==
  /\ pc = "head"
  /\ w_cmd' = command_queue[1]
  /\ pc' = "slice"
  /\ UNCHANGED << engine, w_tail, w_addr, w_data, w_tmp, wire, link, history >>

\* the right-hand side self._command_queue[1:], a new list
W_Slice ==
  /\ pc = "slice"
  /\ w_tail' = SliceFrom(command_queue, 1)
  /\ pc' = "store"
  /\ UNCHANGED << engine, w_cmd, w_addr, w_data, w_tmp, wire, link, history >>

\* self._command_queue = <that list>, then getattr and the call
W_Store ==
  /\ pc = "store"
  /\ command_queue' = w_tail
  /\ dispatched' = Append(dispatched, w_cmd.id)
  /\ w_tail' = << >>
  /\ pc' = IF w_cmd.cmd = "_read" THEN "rd_addrs"
           ELSE IF w_cmd.cmd = "_erase_sector" THEN "er_ld"
           ELSE "wr_ld"
  /\ w_addr' = IF w_cmd.cmd = "_write" THEN w_cmd.addr ELSE w_addr
  /\ w_data' = IF w_cmd.cmd = "_write" THEN w_cmd.data ELSE w_data
  /\ UNCHANGED << wants_to_exit, total_callbacks_expected, done_callbacks_received,
                  read_callbacks_received, rd_cb_addrs, rd_cb_lens, rd_cb_data,
                  w_cmd, w_tmp, wire, link, fixed, budget, log, rd_cb_src, cur_read >>

(* ------------------------------------------------- worker: the three commands *)
\* one link.send_message(msg_type, msg_buf); cid is history: the command sending
Message(msg_type, msg_buf, cid) == [msg_type |-> msg_type, msg_buf |-> msg_buf, cid |-> cid]

\* _add_to_expected_callbacks: the load of self._total_callbacks_expected ...
AddLoad == w_tmp' = total_callbacks_expected

\* the sum computed and not stored
AddStoreDropped(num) == total_callbacks_expected' = w_tmp

\* ... and the store of the sum
AddStore(num) == total_callbacks_expected' = w_tmp + num

\* integer division in place of the ceiling
ReadCallbacksExpectedFloor(length) == length \div ADDRS_PER_READ_CALLBACK

\* int(ceil(float(length)/ADDRS_PER_READ_CALLBACK))
ReadCallbacksExpected(length) == CeilDiv(length, ADDRS_PER_READ_CALLBACK)

\* the two fields packed in the other order
ReadMsgBufSwapped(addr, length) == PackLE32(length) \o PackLE32(addr)

\* struct.pack("<II", addr, length)
ReadMsgBuf(addr, length) == PackLE32(addr) \o PackLE32(length)

\* struct.pack("<I", addr)
EraseMsgBuf(addr) == PackLE32(addr)

\* a chunk one byte short of the step of the address
DataToSendShort(data) == SliceTo(data, ADDRS_PER_WRITE_CALLBACK - 1)

\* data[:ADDRS_PER_WRITE_CALLBACK] and data[ADDRS_PER_WRITE_CALLBACK:]
DataToSend(data) == SliceTo(data, ADDRS_PER_WRITE_CALLBACK)
DataLeft(data) == SliceFrom(data, ADDRS_PER_WRITE_CALLBACK)

\* struct.pack("<IB", addr, len(data)) + data
WriteMsgBuf(addr, data) == PackLE32(addr) \o << Len(data) >> \o data

\* _read: self.rd_cb_addrs = []
W_ReadResetAddrs ==
  /\ pc = "rd_addrs"
  /\ rd_cb_addrs' = << >>
  /\ rd_cb_src' = << >>
  /\ cur_read' = w_cmd.id
  /\ pc' = "rd_lens"
  /\ UNCHANGED << command_queue, wants_to_exit, total_callbacks_expected,
                  done_callbacks_received, read_callbacks_received, rd_cb_lens, rd_cb_data,
                  w_cmd, w_tail, w_addr, w_data, w_tmp, wire, link,
                  fixed, budget, log, dispatched >>

\* _read: self.rd_cb_lens = []
W_ReadResetLens ==
  /\ pc = "rd_lens"
  /\ rd_cb_lens' = << >>
  /\ pc' = "rd_data"
  /\ UNCHANGED << command_queue, wants_to_exit, total_callbacks_expected,
                  done_callbacks_received, read_callbacks_received, rd_cb_addrs, rd_cb_data,
                  w_cmd, w_tail, w_addr, w_data, w_tmp, wire, link, history >>

\* _read: self.rd_cb_data = [] and the pack
W_ReadResetData ==
  /\ pc = "rd_data"
  /\ rd_cb_data' = << >>
  /\ pc' = "rd_ld"
  /\ UNCHANGED << command_queue, wants_to_exit, total_callbacks_expected,
                  done_callbacks_received, read_callbacks_received, rd_cb_addrs, rd_cb_lens,
                  w_cmd, w_tail, w_addr, w_data, w_tmp, wire, link, history >>

\* _read: _add_to_expected_callbacks(...), the load
W_ReadAddLoad ==
  /\ pc = "rd_ld"
  /\ AddLoad
  /\ pc' = "rd_add"
  /\ UNCHANGED << engine, w_cmd, w_tail, w_addr, w_data, wire, link, history >>

\* _read: _add_to_expected_callbacks(...), the store
W_ReadAdd ==
  /\ pc = "rd_add"
  /\ AddStore(ReadCallbacksExpected(w_cmd.length))
  /\ w_tmp' = 0
  /\ pc' = "rd_send"
  /\ UNCHANGED << command_queue, wants_to_exit, done_callbacks_received,
                  read_callbacks_received, rd_cb_addrs, rd_cb_lens, rd_cb_data,
                  w_cmd, w_tail, w_addr, w_data, wire, link, history >>

\* _read: self.link.send_message(0xF1, msg_buf)
W_ReadSend ==
  /\ pc = "rd_send"
  /\ wire' = Append(wire, Message(MSG_FLASH_READ, ReadMsgBuf(w_cmd.addr, w_cmd.length), w_cmd.id))
  /\ pc' = "top"
  /\ UNCHANGED << engine, w_cmd, w_tail, w_addr, w_data, w_tmp, link, history >>

\* _erase_sector: the pack and _add_to_expected_callbacks(1), the load
W_EraseAddLoad ==
  /\ pc = "er_ld"
  /\ AddLoad
  /\ pc' = "er_add"
  /\ UNCHANGED << engine, w_cmd, w_tail, w_addr, w_data, wire, link, history >>

\* _erase_sector: _add_to_expected_callbacks(1), the store
W_EraseAdd ==
  /\ pc = "er_add"
  /\ AddStore(1)
  /\ w_tmp' = 0
  /\ pc' = "er_send"
  /\ UNCHANGED << command_queue, wants_to_exit, done_callbacks_received,
                  read_callbacks_received, rd_cb_addrs, rd_cb_lens, rd_cb_data,
                  w_cmd, w_tail, w_addr, w_data, wire, link, history >>

\* _erase_sector: self.link.send_message(0xF2, msg_buf)
W_EraseSend ==
  /\ pc = "er_send"
  /\ wire' = Append(wire, Message(MSG_FLASH_ERASE, EraseMsgBuf(w_cmd.addr), w_cmd.id))
  /\ pc' = "top"
  /\ UNCHANGED << engine, w_cmd, w_tail, w_addr, w_data, w_tmp, link, history >>

\* _write: the test of the while (line 135, on the local data) and the load in
\* _add_to_expected_callbacks(1), of line 139 inside the loop or line 145 after it
W_WriteAddLoad ==
  /\ pc = "wr_ld"
  /\ AddLoad
  /\ pc' = "wr_add"
  /\ UNCHANGED << engine, w_cmd, w_tail, w_addr, w_data, wire, link, history >>

\* _write: _add_to_expected_callbacks(1), the store
W_WriteAdd ==
  /\ pc = "wr_add"
  /\ AddStore(1)
  /\ w_tmp' = 0
  /\ pc' = "wr_send"
  /\ UNCHANGED << command_queue, wants_to_exit, done_callbacks_received,
                  read_callbacks_received, rd_cb_addrs, rd_cb_lens, rd_cb_data,
                  w_cmd, w_tail, w_addr, w_data, wire, link, history >>

\* _write, inside the while: send data[:128], addr += 128, data = data[128:]
W_WriteLoopSend ==
  /\ pc = "wr_send"
  /\ Len(w_data) > ADDRS_PER_WRITE_CALLBACK
  /\ wire' = Append(wire, Message(MSG_FLASH_WRITE, WriteMsgBuf(w_addr, DataToSend(w_data)), w_cmd.id))
  /\ w_addr' = w_addr + ADDRS_PER_WRITE_CALLBACK
  /\ w_data' = DataLeft(w_data)
  /\ pc' = "wr_ld"
  /\ UNCHANGED << engine, w_cmd, w_tail, w_tmp, link, history >>

\* _write, after the while: send what is left of data
W_WriteLastSend ==
  /\ pc = "wr_send"
  /\ ~ (Len(w_data) > ADDRS_PER_WRITE_CALLBACK)
  /\ wire' = Append(wire, Message(MSG_FLASH_WRITE, WriteMsgBuf(w_addr, w_data), w_cmd.id))
  /\ w_addr' = 0
  /\ w_data' = << >>
  /\ pc' = "top"
  /\ UNCHANGED << engine, w_cmd, w_tail, w_tmp, link, history >>

WorkerLoop ==
  \/ W_Top \/ W_CheckLen \/ W_CheckDone \/ W_CheckRead
  \/ W_Head \/ W_Slice \/ W_Store

WorkerRead ==
  \/ W_ReadResetAddrs \/ W_ReadResetLens \/ W_ReadResetData
  \/ W_ReadAddLoad \/ W_ReadAdd \/ W_ReadSend

WorkerErase == W_EraseAddLoad \/ W_EraseAdd \/ W_EraseSend

WorkerWrite == W_WriteAddLoad \/ W_WriteAdd \/ W_WriteLoopSend \/ W_WriteLastSend

Worker == WorkerLoop \/ WorkerRead \/ WorkerErase \/ WorkerWrite

(* --------------------------------------------------- the device and the link *)
\* the length field of a read request, as the device decodes it
RequestAddr(m) == UnpackLE32(SubSeq(m.msg_buf, 1, 4))
RequestLength(m) == UnpackLE32(SubSeq(m.msg_buf, 5, 8))

\* callbacks the device answers a message with: one done callback per erase or
\* write, one read callback per 16 addresses or less of a read
NumCallbacks(m) ==
  IF m.msg_type = MSG_FLASH_READ
    THEN CeilDiv(RequestLength(m), ADDRS_PER_READ_CALLBACK)
    ELSE 1

\* the k-th (from 0) read callback's data: 3 bytes addr, 1 byte length, length bytes data
FragmentFrame(m, k) ==
  LET a == RequestAddr(m) + k * ADDRS_PER_READ_CALLBACK
      n == Min(ADDRS_PER_READ_CALLBACK, RequestLength(m) - k * ADDRS_PER_READ_CALLBACK)
  IN  PackBE24(a) \o << n >> \o [i \in 1..n |-> FlashByte(a + i - 1)]

\* the device answers the messages in the order sent: the message and the index
\* of the callback that comes after n callbacks counted from message i on;
\* << 0, 0 >> when every callback of every sent message has been started
RECURSIVE Locate(_, _, _)
Locate(w, i, n) ==
  IF i > Len(w) THEN << 0, 0 >>
  ELSE IF n < NumCallbacks(w[i]) THEN << i, n >>
  ELSE Locate(w, i + 1, n - NumCallbacks(w[i]))

NextCallback == Locate(wire, 1, lk_count)

\* _flash_done_callback: the load of self._done_callbacks_received
L_DoneLoad ==
  /\ lk_pc = "idle"
  /\ NextCallback[1] # 0
  /\ wire[NextCallback[1]].msg_type # MSG_FLASH_READ
  /\ lk_count' = lk_count + 1
  /\ lk_tmp' = done_callbacks_received
  /\ lk_pc' = "dn_st"
  /\ UNCHANGED << engine, worker, wire, lk_frame, lk_obj, history >>

\* _flash_done_callback: the store of the sum
L_DoneStore ==
  /\ lk_pc = "dn_st"
  /\ done_callbacks_received' = lk_tmp + 1
  /\ lk_tmp' = 0
  /\ lk_pc' = "idle"
  /\ UNCHANGED << command_queue, wants_to_exit, total_callbacks_expected,
                  read_callbacks_received, rd_cb_addrs, rd_cb_lens, rd_cb_data,
                  worker, wire, lk_count, lk_frame, lk_obj, history >>

\* _flash_read_callback: self.rd_cb_addrs.append(unpack('>I', '\x00' + data[0:3])[0])
L_FragAddrs ==
  /\ lk_pc = "idle"
  /\ NextCallback[1] # 0
  /\ wire[NextCallback[1]].msg_type = MSG_FLASH_READ
  /\ LET m == wire[NextCallback[1]]
         data == FragmentFrame(m, NextCallback[2])
     IN  /\ lk_frame' = data
         /\ rd_cb_addrs' = Append(rd_cb_addrs, UnpackBE32(<< 0 >> \o SubSeq(data, 1, 3)))
         /\ rd_cb_src' = Append(rd_cb_src, m.cid)
  /\ lk_count' = lk_count + 1
  /\ lk_pc' = "fr_lens"
  /\ UNCHANGED << command_queue, wants_to_exit, total_callbacks_expected,
                  done_callbacks_received, read_callbacks_received, rd_cb_lens, rd_cb_data,
                  worker, wire, lk_tmp, lk_obj, fixed, budget, log, dispatched, cur_read >>

\* _flash_read_callback: self.rd_cb_lens.append(unpack('B', data[3])[0])
L_FragLens ==
  /\ lk_pc = "fr_lens"
  /\ rd_cb_lens' = Append(rd_cb_lens, lk_frame[4])
  /\ lk_pc' = "fr_obj"
  /\ UNCHANGED << command_queue, wants_to_exit, total_callbacks_expected,
                  done_callbacks_received, read_callbacks_received, rd_cb_addrs, rd_cb_data,
                  worker, wire, lk_count, lk_frame, lk_tmp, lk_obj, history >>

\* self.rd_cb_data += ...: the load of self.rd_cb_data, the list to extend
L_FragDataLoad ==
  /\ lk_pc = "fr_obj"
  /\ lk_obj' = rd_cb_data
  /\ lk_pc' = "fr_last"
  /\ UNCHANGED << engine, worker, wire, lk_count, lk_frame, lk_tmp, history >>

\* self.rd_cb_lens[-1], and the unpack of data[4:] as that many bytes, appended
\* to the list loaded (the unpack takes a frame whose data are that long)
L_FragDataExtend ==
  /\ lk_pc = "fr_last"
  /\ rd_cb_lens # << >>
  /\ Len(lk_frame) - 4 = rd_cb_lens[Len(rd_cb_lens)]
  /\ lk_obj' = lk_obj \o SliceFrom(lk_frame, 4)
  /\ lk_pc' = "fr_store"
  /\ UNCHANGED << engine, worker, wire, lk_count, lk_frame, lk_tmp, history >>

\* self.rd_cb_lens[-1] on a list that _read has emptied meanwhile: IndexError
\* ends the callback
L_FragIndexError ==
  /\ lk_pc = "fr_last"
  /\ rd_cb_lens = << >>
  /\ lk_obj' = << >>
  /\ lk_frame' = << >>
  /\ lk_pc' = "idle"
  /\ UNCHANGED << engine, worker, wire, lk_count, lk_tmp, history >>

\* self.rd_cb_data = <the extended list>
L_FragDataStore ==
  /\ lk_pc = "fr_store"
  /\ rd_cb_data' = lk_obj
  /\ lk_obj' = << >>
  /\ lk_frame' = << >>
  /\ lk_pc' = "fr_ld"
  /\ UNCHANGED << command_queue, wants_to_exit, total_callbacks_expected,
                  done_callbacks_received, read_callbacks_received, rd_cb_addrs, rd_cb_lens,
                  worker, wire, lk_count, lk_tmp, history >>

\* self._read_callbacks_received += 1, the load
L_FragCountLoad ==
  /\ lk_pc = "fr_ld"
  /\ lk_tmp' = read_callbacks_received
  /\ lk_pc' = "fr_st"
  /\ UNCHANGED << engine, worker, wire, lk_count, lk_frame, lk_obj, history >>

\* self._read_callbacks_received += 1, the store
L_FragCountStore ==
  /\ lk_pc = "fr_st"
  /\ read_callbacks_received' = lk_tmp + 1
  /\ lk_tmp' = 0
  /\ lk_pc' = "idle"
  /\ UNCHANGED << command_queue, wants_to_exit, total_callbacks_expected,
                  done_callbacks_received, rd_cb_addrs, rd_cb_lens, rd_cb_data,
                  worker, wire, lk_count, lk_frame, lk_obj, history >>

LinkDone == L_DoneLoad \/ L_DoneStore

LinkRead ==
  \/ L_FragAddrs \/ L_FragLens \/ L_FragDataLoad \/ L_FragDataExtend
  \/ L_FragDataStore \/ L_FragCountLoad \/ L_FragCountStore

(* --------------------------------------------------------------------- specs *)
Next == Enqueue \/ Stop \/ Worker \/ LinkDone \/ LinkRead \/ L_FragIndexError

\* any clients, the worker and the link, over Menu
Spec == Init /\ [][Next]_vars

\* erases and writes over GateMenu, whose write alone fills the pending limit
NextGate == Enqueue \/ Stop \/ WorkerLoop \/ WorkerErase \/ WorkerWrite \/ LinkDone

SpecGate == InitGate /\ [][NextGate]_vars

\* one command of every length up to MaxLen; a single read cannot meet the
\* reset of a later one
NextChunk == Enqueue \/ Stop \/ Worker \/ LinkDone \/ LinkRead

SpecChunk == InitChunk /\ [][NextChunk]_vars

(* ------------------------------------------------------ vocabulary of claims *)
\* the worker is inside _read, _erase_sector or _write
ExecPcs == { "rd_addrs", "rd_lens", "rd_data", "rd_ld", "rd_add", "rd_send",
             "er_ld", "er_add", "er_send", "wr_ld", "wr_add", "wr_send" }
Executing == pc \in ExecPcs

\* the worker is in an iteration whose condition held
Admitted == pc \in ExecPcs \cup { "head", "slice", "store" }

Range(q) == { q[i] : i \in 1..Len(q) }

Count(q, x) == Cardinality({ i \in 1..Len(q) : q[i] = x })

\* command n has been taken from the queue and its function has returned
Finished(n) == n \in Range(dispatched) /\ ~ (Executing /\ w_cmd.id = n)

\* the messages command n has sent, in send order
RECURSIVE MessagesOf(_, _)
MessagesOf(w, n) ==
  IF w = << >> THEN << >>
  ELSE IF Head(w).cid = n THEN << Head(w) >> \o MessagesOf(Tail(w), n)
  ELSE MessagesOf(Tail(w), n)

\* callbacks announced by the device's rules for the messages of a log
RECURSIVE SumCallbacks(_)
SumCallbacks(w) == IF w = << >> THEN 0 ELSE NumCallbacks(Head(w)) + SumCallbacks(Tail(w))

\* the data bytes of a write message, after the address and the length field
WriteData(m) == SliceFrom(m.msg_buf, 5)

RECURSIVE Concat(_)
Concat(ms) == IF ms = << >> THEN << >> ELSE WriteData(Head(ms)) \o Concat(Tail(ms))

(* ------------------------------------------------------------------------ C1 *)
\* C1: in every reachable state completed + read_completed <= expected, that is
\* flash_operations_pending() >= 0, when callbacks come only for sent messages.
C1_CounterNeverOvershoots ==
  /\ done_callbacks_received + read_callbacks_received <= total_callbacks_expected
  /\ flash_operations_pending >= 0

\* every callback of an erase/write and of a read has been counted
C1_Witness ==
  /\ done_callbacks_received > 0
  /\ read_callbacks_received > 1
  /\ flash_operations_pending = 0

(* ------------------------------------------------------------------------ C2 *)
\* C2: the worker removes the head of the queue, raises expected or sends only in
\* an iteration whose check held, and the check holds only when the queue is
\* non-empty and pending() < PENDING_COMMANDS_LIMIT; an iteration whose check
\* fails changes neither the queue nor expected nor the wire.
C2_AdmissionRule ==
  [][ /\ ( \/ Len(command_queue') < Len(command_queue)
           \/ total_callbacks_expected' # total_callbacks_expected
           \/ wire' # wire ) => Admitted
      /\ (~ Admitted /\ Admitted') =>
           (Len(command_queue) # 0 /\ flash_operations_pending < PENDING_COMMANDS_LIMIT)
    ]_vars

\* the worker, having dispatched before, is about to refuse a queued command
\* because the pending count it computed is at the limit
C2_Witness ==
  /\ pc = "chk_read"
  /\ Len(command_queue) # 0
  /\ w_tmp - read_callbacks_received >= PENDING_COMMANDS_LIMIT
  /\ dispatched # << >>

(* ------------------------------------------------------------------------ C3 *)
\* C3: expected is raised by a message's completions before the message is sent:
\* in every state expected covers the callbacks of all sent messages, so every
\* callback the link has started is already included in expected.
C3_IncrementBeforeSend ==
  /\ SumCallbacks(wire) <= total_callbacks_expected
  /\ lk_count <= total_callbacks_expected

\* an erase, a write chunk and a read have been announced and sent
C3_Witness ==
  /\ \E i \in 1..Len(wire) : wire[i].msg_type = MSG_FLASH_ERASE
  /\ \E i \in 1..Len(wire) : wire[i].msg_type = MSG_FLASH_WRITE
  /\ \E i \in 1..Len(wire) : wire[i].msg_type = MSG_FLASH_READ
  /\ SumCallbacks(wire) = total_callbacks_expected

(* ------------------------------------------------------------------------ C4 *)
\* C4: commands are dispatched in FIFO order: the messages on the wire appear in
\* the order their commands were enqueued, and the messages of one command are
\* adjacent.
C4_FifoDispatch ==
  \A i, j \in 1..Len(wire) : i < j => wire[i].cid <= wire[j].cid

\* a command of two messages has been sent between two other commands
C4_Witness ==
  \E i \in 1..Len(wire) :
    /\ i + 3 <= Len(wire)
    /\ wire[i].cid < wire[i + 1].cid
    /\ wire[i + 1].cid = wire[i + 2].cid
    /\ wire[i + 2].cid < wire[i + 3].cid

(* ------------------------------------------------------------------------ C5 *)
\* C5: no command is lost or duplicated: every enqueued command is either still
\* in the queue or has been dispatched exactly once.
C5_NoCommandLost ==
  \A n \in 1..Len(log) :
    Count([i \in 1..Len(command_queue) |-> command_queue[i].id], n) + Count(dispatched, n) = 1

(* ------------------------------------------------------------------------ C6 *)
\* what C6 says of a finished Write(address, data) that sent the messages ms,
\* with count the number of messages it is said to send
WriteSplit(c, ms, count) ==
  /\ Len(ms) = count
  /\ \A k \in 1..Len(ms) :
       /\ ms[k].msg_type = MSG_FLASH_WRITE
       /\ Len(ms[k].msg_buf) >= 5
       /\ Len(WriteData(ms[k])) <= ADDRS_PER_WRITE_CALLBACK
       /\ ms[k].msg_buf[5] = Len(WriteData(ms[k]))
       /\ UnpackLE32(SubSeq(ms[k].msg_buf, 1, 4)) = c.addr + (k - 1) * ADDRS_PER_WRITE_CALLBACK
  /\ Concat(ms) = c.data

FinishedWrites == { n \in 1..Len(log) : log[n].cmd = "_write" /\ Finished(n) }

\* C6 as claimed: a Write of L >= 0 bytes, L = 0 included, sends exactly
\* ceil(L/128) messages of at most 128 bytes each, at addresses address,
\* address+128, ..., whose payloads concatenate to data.
C6_Original ==
  \A n \in FinishedWrites :
    WriteSplit(log[n], MessagesOf(wire, n), CeilDiv(Len(log[n].data), ADDRS_PER_WRITE_CALLBACK))

\* C6 as amended: the same for L >= 1; a Write of L = 0 bytes sends exactly one
\* message, with length field 0 and no data bytes.
C6_WriteSplit ==
  \A n \in FinishedWrites :
    WriteSplit(log[n], MessagesOf(wire, n),
               IF Len(log[n].data) = 0 THEN 1
               ELSE CeilDiv(Len(log[n].data), ADDRS_PER_WRITE_CALLBACK))

\* a Write of exactly two full chunks has been sent
C6_Witness ==
  \E n \in FinishedWrites :
    /\ Len(log[n].data) = 2 * ADDRS_PER_WRITE_CALLBACK
    /\ Len(MessagesOf(wire, n)) = 2

(* ------------------------------------------------------------------------ C7 *)
\* what a finished command adds to expected according to C7
Raises(c, ms) ==
  IF c.cmd = "_erase_sector" THEN 1
  ELSE IF c.cmd = "_read" THEN CeilDiv(c.length, ADDRS_PER_READ_CALLBACK)
  ELSE Len(ms)

RECURSIVE SumRaises(_)
SumRaises(ids) ==
  IF ids = << >> THEN 0
  ELSE Raises(log[Head(ids)], MessagesOf(wire, Head(ids))) + SumRaises(Tail(ids))

\* C7: an Erase raises expected by 1 and sends one erase message with its
\* address; a Write raises expected by 1 per write message; a Read(address,
\* length) raises expected by ceil(length/16) and sends exactly one read request
\* carrying address and length, for every length >= 0.
C7_ExpectedPerCommand ==
  /\ ~ Executing => total_callbacks_expected = SumRaises(dispatched)
  /\ \A n \in 1..Len(log) : Finished(n) =>
       LET c == log[n]
           ms == MessagesOf(wire, n)
       IN  /\ c.cmd = "_erase_sector" =>
                /\ Len(ms) = 1
                /\ ms[1].msg_type = MSG_FLASH_ERASE
                /\ Len(ms[1].msg_buf) = 4
                /\ UnpackLE32(ms[1].msg_buf) = c.addr
           /\ c.cmd = "_read" =>
                /\ Len(ms) = 1
                /\ ms[1].msg_type = MSG_FLASH_READ
                /\ Len(ms[1].msg_buf) = 8
                /\ UnpackLE32(SubSeq(ms[1].msg_buf, 1, 4)) = c.addr
                /\ UnpackLE32(SubSeq(ms[1].msg_buf, 5, 8)) = c.length
           /\ c.cmd = "_write" =>
                /\ Len(ms) >= 1
                /\ \A k \in 1..Len(ms) : ms[k].msg_type = MSG_FLASH_WRITE

\* a Read of 33 bytes has been dispatched: one request, expected raised by 3
C7_Witness ==
  /\ ~ Executing
  /\ \E n \in 1..Len(log) :
       /\ Finished(n)
       /\ log[n].cmd = "_read"
       /\ log[n].length = 2 * ADDRS_PER_READ_CALLBACK + 1
  /\ total_callbacks_expected = 3

(* ------------------------------------------------------------------------ C8 *)
\* completions one command generates, as C8 counts them
Completions(c) ==
  IF c.cmd = "_erase_sector" THEN 1
  ELSE IF c.cmd = "_read" THEN CeilDiv(c.length, ADDRS_PER_READ_CALLBACK)
  ELSE Max(1, CeilDiv(Len(c.data), ADDRS_PER_WRITE_CALLBACK))

RECURSIVE MaxCompletions(_)
MaxCompletions(q) ==
  IF q = << >> THEN 0 ELSE Max(Completions(Head(q)), MaxCompletions(Tail(q)))

\* C8: pending() exceeds the limit by at most one command's messages: in every
\* state pending() <= (PENDING_COMMANDS_LIMIT - 1) + M, M the largest number of
\* completions of any single command enqueued.
C8_OvershootBound ==
  flash_operations_pending <= (PENDING_COMMANDS_LIMIT - 1) + MaxCompletions(log)

\* the bound is met: 19 operations pending and a command of 20 messages admitted
C8_Witness ==
  /\ MaxCompletions(log) = PENDING_COMMANDS_LIMIT
  /\ flash_operations_pending = (PENDING_COMMANDS_LIMIT - 1) + MaxCompletions(log)

(* ------------------------------------------------------------------------ C9 *)
\* every callback of every sent message has run to its end, and the worker is
\* not inside a command
AllCallbacksReceived ==
  /\ ~ Executing
  /\ lk_pc = "idle"
  /\ lk_count = SumCallbacks(wire)

\* C9: once the queue is empty and no further command is enqueued,
\* flash_callbacks_left() never increases from one observation to the next, and
\* it is 0 when every dispatched operation has received its callbacks.
C9_CallbacksLeftDecreases ==
  [][ /\ (command_queue = << >> /\ command_queue' = << >>) =>
           flash_callbacks_left' <= flash_callbacks_left
      /\ (command_queue' = << >> /\ AllCallbacksReceived') => flash_callbacks_left' = 0
    ]_vars

(* ----------------------------------------------------------------------- C10 *)
\* C10: every fragment in the accumulator was delivered in response to the most
\* recently dispatched Read, also when a second Read is dispatched while
\* fragments of an earlier Read are outstanding.
C10_OneReadInAccumulator ==
  \A i \in 1..Len(rd_cb_src) : rd_cb_src[i] = cur_read

(* ------------------------------------------------------ read_cb_sanity_check *)
\* fragments accumulated before a check in SpecSanity
MaxFrags == 3

RECURSIVE SumSeq(_)
SumSeq(q) == IF q = << >> THEN 0 ELSE Head(q) + SumSeq(Tail(q))

\* expected_addrs started at a fixed 0 instead of the first address received
RECURSIVE ExpectedAddrsFromZero(_, _)
ExpectedAddrsFromZero(first, lens) ==
  IF Len(lens) <= 1 THEN << 0 >>
  ELSE LET e == ExpectedAddrsFromZero(first, SubSeq(lens, 1, Len(lens) - 1))
       IN  Append(e, e[Len(e)] + lens[Len(lens) - 1])

\* expected_addrs = [rd_cb_addrs[0]], then one append of expected_addrs[-1] +
\* length for each length of rd_cb_lens[0:-1]
RECURSIVE ExpectedAddrs(_, _)
ExpectedAddrs(first, lens) ==
  IF Len(lens) <= 1 THEN << first >>
  ELSE LET e == ExpectedAddrs(first, SubSeq(lens, 1, Len(lens) - 1))
       IN  Append(e, e[Len(e)] + lens[Len(lens) - 1])

\* what a call does on the three lists: the exception it raises, or "ok"
SanityOutcome(addrs, lens, data) ==
  IF addrs = << >> THEN "IndexError"
  ELSE IF addrs # ExpectedAddrs(addrs[1], lens) THEN "discontinuous"
  ELSE IF SumSeq(lens) # Len(data) THEN "length"
  ELSE "ok"

\* a client calls read_cb_sanity_check()
SanityCheck ==
  /\ sanity = "none"
  /\ sanity' = SanityOutcome(rd_cb_addrs, rd_cb_lens, rd_cb_data)
  /\ UNCHANGED << engine, worker, wire, link, menu, lost, loader, two, budget, log, dispatched,
                  rd_cb_src, cur_read >>

\* accumulated fragments: up to MaxFrags addresses and lengths as a device may
\* report them, and data one byte short of, equal to or one byte over the
\* lengths' sum
FragAddrs == { 0, 16, 32, 48 }
FragLens == { 0, 15, 16 }

InitSanity ==
  /\ InitRest
  /\ InitNoLoad
  /\ menu = "Menu"
  /\ budget = 0
  /\ \E n \in 1..MaxFrags :
       /\ rd_cb_addrs \in [1..n -> FragAddrs]
       /\ rd_cb_lens \in [1..n -> FragLens]
  /\ \E d \in { -1, 0, 1 } :
       /\ SumSeq(rd_cb_lens) + d >= 0
       /\ rd_cb_data = [i \in 1..(SumSeq(rd_cb_lens) + d) |-> FlashByte(i)]

NextSanity == SanityCheck

SpecSanity == InitSanity /\ [][NextSanity]_vars

(* ----------------------------------------------------------------------- C11 *)
\* each fragment's address is the previous fragment's address plus its length
Contiguous(addrs, lens) ==
  \A k \in 2..Len(addrs) : addrs[k] = addrs[k - 1] + lens[k - 1]

\* C11: on a non-empty fragment sequence read_cb_sanity_check succeeds exactly
\* when (1) each address is the previous address plus the previous length and
\* (2) the lengths sum to the number of data bytes; it reports discontinuous
\* addresses when (1) fails and a length mismatch when (1) holds and (2) fails;
\* and it changes no engine state.
C11_SanityCheck ==
  [][ sanity' # sanity =>
        LET c1 == Contiguous(rd_cb_addrs, rd_cb_lens)
            c2 == SumSeq(rd_cb_lens) = Len(rd_cb_data)
        IN  /\ Len(rd_cb_addrs) > 0 /\ Len(rd_cb_addrs) = Len(rd_cb_lens)
            /\ sanity' = "ok" <=> (c1 /\ c2)
            /\ sanity' = "discontinuous" <=> ~ c1
            /\ sanity' = "length" <=> (c1 /\ ~ c2)
            /\ engine' = engine
    ]_vars

\* the check has rejected the fragments at 0, 16, 48 of 16 bytes each
C11_Witness ==
  /\ sanity = "discontinuous"
  /\ rd_cb_addrs = << 0, 16, 48 >>
  /\ rd_cb_lens = << 16, 16, 16 >>
  /\ Len(rd_cb_data) = 48

(* ----------------------------------------------------------------------- C12 *)
\* q is an initial part of r
IsPrefix(q, r) == Len(q) <= Len(r) /\ SubSeq(r, 1, Len(q)) = q

\* wire messages one execution of command c sends
MessagesDue(c) ==
  IF c.cmd = "_write" /\ Len(c.data) > 0 THEN CeilDiv(Len(c.data), ADDRS_PER_WRITE_CALLBACK)
  ELSE 1

\* C12: after stop() the worker terminates the next time it reaches the top of
\* its loop; from then on no command is dequeued, no wire message is sent and
\* queued commands stay queued, whatever callbacks are outstanding; a command
\* whose execution began before the flag was observed still sends all of its
\* wire messages.
C12_StopAtTop ==
  [][ /\ wants_to_exit => wants_to_exit'
      /\ (pc = "top" /\ wants_to_exit /\ pc' # pc) => pc' = "exit"
      /\ pc' = "exit" => (pc \in { "top", "exit" } /\ wants_to_exit)
      /\ pc = "exit" =>
           /\ pc' = "exit"
           /\ dispatched' = dispatched
           /\ wire' = wire
           /\ total_callbacks_expected' = total_callbacks_expected
           /\ IsPrefix(command_queue, command_queue')
           /\ \A n \in Range(dispatched) :
                Len(MessagesOf(wire, n)) = MessagesDue(log[n])
    ]_vars

\* the worker has terminated although a command is queued and callbacks are
\* outstanding, after a two-message write that began before stop() was observed
C12_Witness ==
  /\ pc = "exit"
  /\ Len(command_queue) > 0
  /\ flash_operations_pending > 0
  /\ \E n \in Range(dispatched) : log[n].cmd = "_write" /\ Len(MessagesOf(wire, n)) = 2

(* ------------------------------------------------------------ a lossy link *)
\* the next callback of the device never reaches the engine
L_Lose ==
  /\ lk_pc = "idle"
  /\ NextCallback[1] # 0
  /\ lk_count' = lk_count + 1
  /\ lost' = lost + 1
  /\ UNCHANGED << engine, worker, wire, lk_pc, lk_frame, lk_tmp, lk_obj,
                  menu, sanity, loader, two, budget, log, dispatched, rd_cb_src, cur_read >>

InitLoss == InitEngine /\ menu = "LossMenu" /\ budget = 2

\* two commands, erases or writes of LossChunks messages, on a link that may
\* drop any callback; stop() is not called
NextLoss == Enqueue \/ WorkerLoop \/ WorkerErase \/ WorkerWrite \/ LinkDone \/ L_Lose

SpecLoss == InitLoss /\ [][NextLoss]_vars

(* ----------------------------------------------------------------------- C13 *)
\* C13 as stated: once a callback is lost, the pending count never decreases
\* and no command is dispatched any more.
C13_Original ==
  [][ lost > 0 =>
        /\ flash_operations_pending' >= flash_operations_pending
        /\ dispatched' = dispatched
    ]_vars

\* C13: a lost callback is never made up for, so the pending count stays at
\* least the number of callbacks lost; once PENDING_COMMANDS_LIMIT callbacks
\* are lost no check of the worker holds again, and the commands in the queue
\* are never dispatched.
C13_LostCallbacks ==
  [][ /\ flash_operations_pending >= lost
      /\ flash_operations_pending' >= lost'
      /\ (lost >= PENDING_COMMANDS_LIMIT /\ ~ Admitted) =>
           /\ ~ Admitted'
           /\ dispatched' = dispatched
           /\ wire' = wire
           /\ IsPrefix(command_queue, command_queue')
    ]_vars

\* PENDING_COMMANDS_LIMIT callbacks of a write were lost and none is to come;
\* the worker is back at the top of its loop with a command in the queue
C13_Witness ==
  /\ lost >= PENDING_COMMANDS_LIMIT
  /\ Len(command_queue) > 0
  /\ pc = "top"
  /\ lk_pc = "idle"
  /\ NextCallback[1] = 0

(* ----------------------------------------------------------------- write_ihx *)
SECTORSIZE == 65536

\* the next multiple even from a multiple
roundup_multipleNext(x, multiple) == x + multiple - (x % multiple)

roundup_multiple(x, multiple) ==
  IF x % multiple = 0 THEN x ELSE x + multiple - (x % multiple)

rounddown_multiple(x, multiple) ==
  IF x % multiple = 0 THEN x ELSE x - (x % multiple)

\* the byte an image holds at an address of [minaddr, maxaddr]
ImageByte(a) == (5 * a + 1) % 256

\* ihx.tobinstr(start=addr, size=...): the image's bytes, 0xFF where it has none
tobinstr(im, start, size) ==
  [i \in 1..size |->
     IF start + i - 1 >= im.lo /\ start + i - 1 <= im.hi THEN ImageByte(start + i - 1) ELSE 255]

\* ihx = IntelHex(filename), min_sector and max_sector, and the range of the
\* first for loop
WI_Open ==
  /\ ld_pc = "open"
  /\ ld_addr' = rounddown_multiple(ihx.lo, SECTORSIZE)
  /\ ld_pc' = "erase"
  /\ UNCHANGED << engine, worker, wire, link, menu, sanity, lost, ihx, two, budget, log,
                  dispatched, rd_cb_src, cur_read >>

\* one call of _schedule_command by the caller of write_ihx
WI_Schedule(c) ==
  LET e == WithId(c, Len(log) + 1) IN
    /\ command_queue' = ScheduleAppend(command_queue, e)
    /\ log' = Append(log, e)
    /\ UNCHANGED << wants_to_exit, total_callbacks_expected, done_callbacks_received,
                    read_callbacks_received, rd_cb_addrs, rd_cb_lens, rd_cb_data,
                    worker, wire, link, menu, sanity, lost, ihx, ld_pc, two, budget,
                    dispatched, rd_cb_src, cur_read >>

\* for addr in range(min_sector, max_sector, SECTORSIZE): self.erase_sector(addr)
WI_Erase ==
  /\ ld_pc = "erase"
  /\ ld_addr < roundup_multiple(ihx.hi, SECTORSIZE)
  /\ WI_Schedule(EraseCmd(ld_addr))
  /\ ld_addr' = ld_addr + SECTORSIZE

\* the first loop ends; min_page, max_page and the range of the second loop
WI_Pages ==
  /\ ld_pc = "erase"
  /\ ld_addr >= roundup_multiple(ihx.hi, SECTORSIZE)
  /\ ld_addr' = rounddown_multiple(ihx.lo, ADDRS_PER_WRITE_CALLBACK)
  /\ ld_pc' = "write"
  /\ UNCHANGED << engine, worker, wire, link, menu, sanity, lost, ihx, two, budget, log,
                  dispatched, rd_cb_src, cur_read >>

\* for addr in range(min_page, max_page, ADDRS_PER_WRITE_CALLBACK):
\*   self.write(addr, ihx.tobinstr(start=addr, size=ADDRS_PER_WRITE_CALLBACK))
WI_Write ==
  /\ ld_pc = "write"
  /\ ld_addr < roundup_multiple(ihx.hi, ADDRS_PER_WRITE_CALLBACK)
  /\ WI_Schedule(WriteCmd(ld_addr, tobinstr(ihx, ld_addr, ADDRS_PER_WRITE_CALLBACK)))
  /\ ld_addr' = ld_addr + ADDRS_PER_WRITE_CALLBACK

\* the second loop ends and write_ihx returns
WI_Return ==
  /\ ld_pc = "write"
  /\ ld_addr >= roundup_multiple(ihx.hi, ADDRS_PER_WRITE_CALLBACK)
  /\ ld_addr' = 0
  /\ ld_pc' = "done"
  /\ UNCHANGED << engine, worker, wire, link, menu, sanity, lost, ihx, two, budget, log,
                  dispatched, rd_cb_src, cur_read >>

WriteIhx == WI_Open \/ WI_Erase \/ WI_Pages \/ WI_Write \/ WI_Return

\* images of SpecImage: up to MaxSize bytes from the start of a page inside a
\* sector, from the last page of a sector, from its last byte and from the
\* first byte of the next one; and the image of [0x1000, 0x1FFF]
MaxSize == 130

ImageStarts == { 4096, 65408, 65535, 65536 }

Images ==
  { [lo |-> a, hi |-> a + n - 1] : a \in ImageStarts, n \in 1..MaxSize }
  \cup { [lo |-> 4096, hi |-> 8191] }

InitWriteIhx(images) ==
  /\ InitRest
  /\ InitLists
  /\ menu = "Menu"
  /\ budget = 0
  /\ ihx \in images
  /\ ld_pc = "open"
  /\ ld_addr = 0

InitImage == InitWriteIhx(Images)

\* write_ihx on an engine whose thread has not been started
NextImage == WriteIhx

SpecImage == InitImage /\ [][NextImage]_vars

\* an image over the end of a sector, and one inside a sector
LoadImages == { [lo |-> 65472, hi |-> 65600], [lo |-> 4096, hi |-> 4200] }

InitLoad == InitWriteIhx(LoadImages)

\* _write of one page: its data are never longer than ADDRS_PER_WRITE_CALLBACK,
\* so the while is not entered
WorkerWritePage == W_WriteAddLoad \/ W_WriteAdd \/ W_WriteLastSend

\* write_ihx beside the running worker and the link's done callbacks
NextLoad == WriteIhx \/ WorkerLoop \/ WorkerErase \/ WorkerWritePage \/ LinkDone

SpecLoad == InitLoad /\ [][NextLoad]_vars

(* ----------------------------------------------------------------------- C14 *)
\* the address a write message or an erase message carries
MessageAddr(m) == UnpackLE32(SubSeq(m.msg_buf, 1, 4))

\* C14: in an image load on an engine with no other commands, every Erase is
\* enqueued before every Write, and the erase message of a sector is on the
\* transport before any write message whose address lies in that sector.
C14_EraseBeforeWrite ==
  /\ \A i, j \in 1..Len(log) :
       (i < j /\ log[i].cmd = "_write") => log[j].cmd # "_erase_sector"
  /\ \A j \in 1..Len(wire) :
       wire[j].msg_type = MSG_FLASH_WRITE =>
         \E i \in 1..(j - 1) :
           /\ wire[i].msg_type = MSG_FLASH_ERASE
           /\ MessageAddr(wire[i]) = (MessageAddr(wire[j]) \div SECTORSIZE) * SECTORSIZE

(* ----------------------------------------------------------------------- C15 *)
\* floor(x, m) and ceil(x, m): the multiples of m next to x
FloorTo(x, m) == (x \div m) * m
CeilTo(x, m) == ((x + m - 1) \div m) * m

\* a command as the client passed it, without the id of the history
Plain(e) == [cmd |-> e.cmd, addr |-> e.addr, length |-> e.length, data |-> e.data]

\* Erase(a) for a = floor(lo, SECTOR), + SECTOR, ... below ceil(hi, SECTOR)
ErasesOf(im) ==
  [k \in 1..((CeilTo(im.hi, SECTORSIZE) - FloorTo(im.lo, SECTORSIZE)) \div SECTORSIZE) |->
     EraseCmd(FloorTo(im.lo, SECTORSIZE) + (k - 1) * SECTORSIZE)]

\* Write(p, image bytes of [p, p + 128)) for p = floor(lo, 128), + 128, ...
\* below ceil(hi, 128)
WritesOf(im) ==
  [k \in 1..((CeilTo(im.hi, ADDRS_PER_WRITE_CALLBACK) - FloorTo(im.lo, ADDRS_PER_WRITE_CALLBACK))
               \div ADDRS_PER_WRITE_CALLBACK) |->
     LET p == FloorTo(im.lo, ADDRS_PER_WRITE_CALLBACK) + (k - 1) * ADDRS_PER_WRITE_CALLBACK
     IN  WriteCmd(p, tobinstr(im, p, ADDRS_PER_WRITE_CALLBACK))]

\* C15: the image load enqueues exactly one Erase(a) for each a from
\* floor(lo, SECTOR) in steps of SECTOR below ceil(hi, SECTOR), then exactly one
\* Write(p, image bytes of [p, p+128)) for each p from floor(lo, 128) in steps
\* of 128 below ceil(hi, 128), in ascending order and nothing else; for the
\* image of [0x1000, 0x1FFF], one Erase of sector 0 and the Writes of the pages
\* from 0x1000 up to 0x2000.
C15_ImageCommands ==
  LET enqueued == [n \in 1..Len(log) |-> Plain(log[n])]
      due == ErasesOf(ihx) \o WritesOf(ihx)
  IN  /\ IsPrefix(enqueued, due)
      /\ ld_pc = "done" => enqueued = due
      /\ (ld_pc = "done" /\ ihx = [lo |-> 4096, hi |-> 8191]) =>
           /\ Len(log) = 33
           /\ enqueued[1] = EraseCmd(0)
           /\ \A k \in 1..32 : /\ log[k + 1].cmd = "_write"
                               /\ log[k + 1].addr = 4096 + (k - 1) * 128
                               /\ Len(log[k + 1].data) = 128

\* write_ihx has returned for the image of [0x1000, 0x1FFF]
C15_Witness ==
  /\ ld_pc = "done"
  /\ ihx = [lo |-> 4096, hi |-> 8191]
  /\ Len(command_queue) = 33

(* ----------------------------------------------------------------------- C16 *)
\* of the first n callbacks the device makes for the messages w, those that are
\* done callbacks, and those that are fragment callbacks
RECURSIVE DoneAmong(_, _)
DoneAmong(w, n) ==
  IF w = << >> THEN 0
  ELSE LET k == Min(n, NumCallbacks(Head(w)))
       IN  (IF Head(w).msg_type # MSG_FLASH_READ THEN k ELSE 0) + DoneAmong(Tail(w), n - k)

RECURSIVE FragAmong(_, _)
FragAmong(w, n) ==
  IF w = << >> THEN 0
  ELSE LET k == Min(n, NumCallbacks(Head(w)))
       IN  (IF Head(w).msg_type = MSG_FLASH_READ THEN k ELSE 0) + FragAmong(Tail(w), n - k)

\* C16: no counter update is lost however worker and link callbacks interleave:
\* expected equals the sum of all announced completions, completed the number of
\* done callbacks delivered and read_completed the number of fragment callbacks
\* delivered; each callback leaves the queue and expected unchanged.
C16_NoLostUpdate ==
  [][ /\ ~ Executing => total_callbacks_expected = SumCallbacks(wire)
      /\ lk_pc = "idle" =>
           /\ done_callbacks_received = DoneAmong(wire, lk_count)
           /\ read_callbacks_received = FragAmong(wire, lk_count)
      /\ (lk_pc' # lk_pc \/ lk_count' # lk_count) =>
           /\ command_queue' = command_queue
           /\ total_callbacks_expected' = total_callbacks_expected
           /\ done_callbacks_received' # done_callbacks_received =>
                read_callbacks_received' = read_callbacks_received
    ]_vars

(* ------------------------------------------------------------ two instances *)
\* commands the clients enqueue in SpecTwo, over both instances
TwoCmds == 3

TwoMenu == { EraseCmd(65536), ReadCmd(4096, 17) }

\* self._command_queue and self.rd_cb_addrs as instance i looks them up: its own
\* attribute once one was assigned, the class attribute until then
QueueOf(i) ==
  IF inst_command_queue[i].own THEN inst_command_queue[i].list ELSE class_command_queue

AddrsOf(i) ==
  IF inst_rd_cb_addrs[i].own THEN inst_rd_cb_addrs[i].list ELSE class_rd_cb_addrs

\* the state of the single engine of the other specifications
single == << engine, worker, wire, link, menu, sanity, lost, loader, budget, log,
            dispatched, rd_cb_src, cur_read >>

\* erase_sector / read on instance i: self._command_queue.append(...) changes
\* the list the lookup finds
T_Schedule ==
  /\ Len(inst_log) < TwoCmds
  /\ \E i \in Insts, c \in TwoMenu :
       LET e == [cmd |-> c.cmd, addr |-> c.addr, length |-> c.length,
                 id |-> Len(inst_log) + 1, owner |-> i]
       IN  /\ inst_log' = Append(inst_log, e)
           /\ IF inst_command_queue[i].own
                THEN /\ inst_command_queue' =
                          [inst_command_queue EXCEPT ![i].list = ScheduleAppend(@, e)]
                     /\ UNCHANGED class_command_queue
                ELSE /\ class_command_queue' = ScheduleAppend(class_command_queue, e)
                     /\ UNCHANGED inst_command_queue
  /\ UNCHANGED << single, class_rd_cb_addrs, inst_rd_cb_addrs, inst_wire, inst_count >>

\* one iteration of instance i's run() whose condition holds (with TwoCmds
\* commands the pending count stays below the limit): the assignment of line
\* 101 gives the instance a queue of its own, _read gives it lists of its own
T_Dispatch ==
  /\ \E i \in Insts :
       /\ Len(QueueOf(i)) # 0
       /\ LET c == QueueOf(i)[1] IN
            /\ inst_command_queue' =
                 [inst_command_queue EXCEPT ![i] = [own |-> TRUE, list |-> SliceFrom(QueueOf(i), 1)]]
            /\ IF c.cmd = "_read"
                 THEN /\ inst_rd_cb_addrs' = [inst_rd_cb_addrs EXCEPT ![i] = [own |-> TRUE, list |-> << >>]]
                      /\ inst_wire' = [inst_wire EXCEPT ![i] =
                           Append(@, Message(MSG_FLASH_READ, ReadMsgBuf(c.addr, c.length), c.id))]
                 ELSE /\ UNCHANGED inst_rd_cb_addrs
                      /\ inst_wire' = [inst_wire EXCEPT ![i] =
                           Append(@, Message(MSG_FLASH_ERASE, EraseMsgBuf(c.addr), c.id))]
  /\ UNCHANGED << single, class_command_queue, class_rd_cb_addrs, inst_count, inst_log >>

\* the next callback on instance i's link: a done callback changes a counter of
\* the instance only; a read callback appends to the list the lookup of
\* self.rd_cb_addrs finds
T_Callback ==
  /\ \E i \in Insts :
       LET at == Locate(inst_wire[i], 1, inst_count[i]) IN
         /\ at[1] # 0
         /\ inst_count' = [inst_count EXCEPT ![i] = @ + 1]
         /\ IF inst_wire[i][at[1]].msg_type = MSG_FLASH_READ
              THEN LET data == FragmentFrame(inst_wire[i][at[1]], at[2])
                       f == [addr |-> UnpackBE32(<< 0 >> \o SubSeq(data, 1, 3)), inst |-> i]
                   IN  IF inst_rd_cb_addrs[i].own
                         THEN /\ inst_rd_cb_addrs' = [inst_rd_cb_addrs EXCEPT ![i].list = Append(@, f)]
                              /\ UNCHANGED class_rd_cb_addrs
                         ELSE /\ class_rd_cb_addrs' = Append(class_rd_cb_addrs, f)
                              /\ UNCHANGED inst_rd_cb_addrs
              ELSE UNCHANGED << class_rd_cb_addrs, inst_rd_cb_addrs >>
  /\ UNCHANGED << single, class_command_queue, inst_command_queue, inst_wire, inst_log >>

InitTwo == InitEngine /\ menu = "Menu" /\ budget = 0

NextTwo == T_Schedule \/ T_Dispatch \/ T_Callback

SpecTwo == InitTwo /\ [][NextTwo]_vars

(* ----------------------------------------------------------------------- C17 *)
\* C17: with two instances, a command enqueued on one never appears in the
\* other's queue and is never dispatched over the other's link, and a fragment
\* delivered to one never appears in the other's accumulator, also before
\* either worker has dispatched its first command.
C17_InstanceOwnsState ==
  \A i \in Insts :
    /\ \A c \in Range(QueueOf(i)) : c.owner = i
    /\ \A m \in Range(inst_wire[i]) : inst_log[m.cid].owner = i
    /\ \A f \in Range(AddrsOf(i)) : f.inst = i

(* --------------------------------------------------------- fair scheduling *)
\* stop() is never called
NextLive == Enqueue \/ Worker \/ LinkDone \/ LinkRead \/ L_FragIndexError

\* the worker thread and the link's thread are scheduled again and again: a
\* step either can take is taken in the end, and so every callback of a sent
\* message is made
SpecLive ==
  /\ Init
  /\ [][NextLive]_vars
  /\ WF_vars(Worker)
  /\ WF_vars(LinkDone \/ LinkRead \/ L_FragIndexError)

(* ----------------------------------------------------------------------- C18 *)
\* C18: when stop() is never called, the clients stop enqueuing and every sent
\* message receives all of its callbacks, then under fair scheduling every
\* enqueued command is dispatched in the end, the queue becomes empty, and
\* flash_callbacks_left() reaches 0 and stays 0.
C18_Progress ==
  <>[]( /\ \A n \in 1..Len(log) : n \in Range(dispatched)
        /\ command_queue = << >>
        /\ flash_callbacks_left = 0 )

(* ----------------------------------------------------------------------- C19 *)
\* C19: wherever flash_callbacks_left() is 0 the engine is idle: the queue is
\* empty, the worker is not in the middle of a command it has dequeued, and no
\* sent operation awaits a callback; a client polling for 0 after enqueuing
\* never sees 0 before all its work has completed.
C19_ZeroMeansIdle ==
  flash_callbacks_left = 0 =>
    /\ command_queue = << >>
    /\ ~ Executing
    /\ lk_pc = "idle" /\ NextCallback[1] = 0
    /\ \A n \in 1..Len(log) : Finished(n)

(* ----------------------------------------------------------------------- C20 *)
\* C20: the load covers the whole image: for lo <= hi, both inclusive, every
\* address of [lo, hi] lies in a sector for which an Erase is enqueued and in
\* the 128-byte range of exactly one enqueued Write.
C20_WholeImageCovered ==
  ld_pc = "done" =>
    \A a \in ihx.lo..ihx.hi :
      /\ \E n \in 1..Len(log) :
           /\ log[n].cmd = "_erase_sector"
           /\ log[n].addr <= a /\ a < log[n].addr + SECTORSIZE
      /\ Cardinality({ n \in 1..Len(log) :
                         /\ log[n].cmd = "_write"
                         /\ log[n].addr <= a /\ a < log[n].addr + ADDRS_PER_WRITE_CALLBACK }) = 1

====
